---- MODULE Spec2Model ----
(***************************************************************************)
(* Verification model of the bank-statement extraction pipeline:           *)
(*   src/final.py  clean_monetary_value, parse_with_retry,                 *)
(*                 extract_headers_only, run_improved_docling_pipeline     *)
(*   src/intelligenet_page_parser.py  parse_pdf_by_page                    *)
(*   src/run_chunked_pipleline.py     process_page, __main__               *)
(* Text is modelled as a sequence of one-character strings so that the     *)
(* regular-expression passes of the source can be computed character by    *)
(* character.                                                              *)
(***************************************************************************)
EXTENDS Integers, Sequences, FiniteSets, TLC

VARIABLES
    \* the normalizer applied on its own
    mpc, mIn, mOut, mOut2,
    \* the post-validation applied on its own
    spc, sIn, sOut,
    \* run_improved_docling_pipeline
    pc,                          \* where the run is
    pages,                       \* the rendering of each page: "blank" or "text"
    hp,                          \* extract_headers_only: page being examined (i + 1)
    attempt,                     \* parse_with_retry: attempt (0 when no call is running)
    invocations,                 \* chain.invoke calls the running parse_with_retry call has made
    column_structure,            \* the value extract_headers_only returned
    scan_log,                    \* what discovery made of each page it examined
    header_invoked,              \* pages the header oracle was invoked for
    page_num,                    \* page loop: page_num
    prompt_context,              \* the previous transaction inside the current prompt
    all_transactions,
    last_successful_transaction,
    page_log,                    \* what the page loop made of each page it visited
    tx_invoked,                  \* pages the extraction oracle was invoked for
    written,                     \* df.to_csv(output_path) happened
    output,                      \* the table written
    \* the per-page files of a document, as both scripts name, sort and walk them
    opc,                         \* where the walk is
    script,                      \* "final" (final.py) or "chunked" (parser + chunked script)
    page_count,                  \* number of pages of the PDF
    files,                       \* the file names in the directory
    page_files,                  \* sorted(glob.glob(...))
    file_index,                  \* the loop index i into page_files
    sent,                        \* physical page numbers in the order they were taken up
    \* run_chunked_pipleline.py
    cpc,                         \* where the script is
    chunk_page_files,            \* page_files: the page each file holds, in sorted order
    chunk_page_num,              \* the 1-based position in page_files being processed
    final_json_data,
    chunk_transactions,          \* all_transactions of the script
    chunk_log,                   \* what the script made of each page it processed
    chunk_written                \* json.dump(final_json_data, f) happened

moneyVars == <<mpc, mIn, mOut, mOut2>>

schemaVars == <<spc, sIn, sOut>>

runVars == <<pc, pages, hp, attempt, invocations, column_structure, scan_log, header_invoked, page_num,
             prompt_context, all_transactions, last_successful_transaction,
             page_log, tx_invoked, written, output>>

orderVars == <<opc, script, page_count, files, page_files, file_index, sent>>

chunkVars == <<cpc, chunk_page_files, chunk_page_num, final_json_data,
               chunk_transactions, chunk_log, chunk_written>>

auxVars == <<orderVars, chunkVars>>

vars == <<moneyVars, schemaVars, runVars, auxVars>>

(***************************************************************************)
(* Bounds                                                                  *)
(***************************************************************************)
MaxLen == 3

MaxCols == 2

MaxPages == 4

(***************************************************************************)
(* Program constants                                                       *)
(***************************************************************************)
max_retries == 2

max_pages_to_scan == 3

(***************************************************************************)
(* Text helpers                                                            *)
(***************************************************************************)
Digits == {"0", "1", "2", "3", "4", "5", "6", "7", "8", "9"}

UpperLetters == <<"A","B","C","D","E","F","G","H","I","J","K","L","M",
                  "N","O","P","Q","R","S","T","U","V","W","X","Y","Z">>

LowerLetters == <<"a","b","c","d","e","f","g","h","i","j","k","l","m",
                  "n","o","p","q","r","s","t","u","v","w","x","y","z">>

IsUpper(c) == \E i \in 1..26 : UpperLetters[i] = c

IsLower(c) == \E i \in 1..26 : LowerLetters[i] = c

\* str.lower() on one character
LowerChar(c) ==
    IF IsUpper(c) THEN LowerLetters[CHOOSE i \in 1..26 : UpperLetters[i] = c]
    ELSE c

\* str.lower()
LowerStr(s) == [i \in 1..Len(s) |-> LowerChar(s[i])]

\* regex \w : letters, digits and the underscore
IsWordChar(c) == IsUpper(c) \/ IsLower(c) \/ c \in Digits \/ c = "_"

IsSpace(c) == c = " "

RECURSIVE LStrip(_)
LStrip(s) == IF s # <<>> /\ IsSpace(Head(s)) THEN LStrip(Tail(s)) ELSE s

RECURSIVE RStrip(_)
RStrip(s) ==
    IF s # <<>> /\ IsSpace(s[Len(s)]) THEN RStrip(SubSeq(s, 1, Len(s) - 1))
    ELSE s

\* str.strip()
Strip(s) == RStrip(LStrip(s))

(***************************************************************************)
(* JSON scalar values as the pipeline sees them                            *)
(*   null | string | int | float                                           *)
(* A number is kept as its decimal digits: ip the integer part without     *)
(* leading zeros, fp the fractional part without trailing zeros.           *)
(***************************************************************************)
Null == [t |-> "null", s |-> <<>>, neg |-> FALSE, ip |-> <<>>, fp |-> <<>>]

Str(s) == [t |-> "str", s |-> s, neg |-> FALSE, ip |-> <<>>, fp |-> <<>>]

PyInt(neg, ip) == [t |-> "int", s |-> <<>>, neg |-> neg, ip |-> ip, fp |-> <<>>]

PyFloat(neg, ip, fp) == [t |-> "float", s |-> <<>>, neg |-> neg, ip |-> ip, fp |-> fp]

IsNull(v) == v.t = "null"

IsNumber(v) == v.t \in {"int", "float"}

\* null or a number that is not negative
NullOrNonNegative(v) == IsNull(v) \/ (IsNumber(v) /\ ~v.neg)

\* str(value) for a string, an int or a float
PyStr(v) ==
    CASE v.t = "str"   -> v.s
      [] v.t = "int"   -> (IF v.neg THEN <<"-">> ELSE <<>>) \o v.ip
      [] v.t = "float" -> (IF v.neg THEN <<"-">> ELSE <<>>) \o v.ip \o <<".">>
                             \o (IF v.fp = <<>> THEN <<"0">> ELSE v.fp)
      [] OTHER         -> <<"N","o","n","e">>

RECURSIVE StripLeadingZeros(_)
StripLeadingZeros(d) ==
    IF Len(d) > 1 /\ Head(d) = "0" THEN StripLeadingZeros(Tail(d))
    ELSE IF d = <<>> THEN <<"0">> ELSE d

RECURSIVE StripTrailingZeros(_)
StripTrailingZeros(d) ==
    IF d # <<>> /\ d[Len(d)] = "0" THEN StripTrailingZeros(SubSeq(d, 1, Len(d) - 1))
    ELSE d

AllDigits(d) == \A i \in 1..Len(d) : d[i] \in Digits

\* positions of the decimal point in s
DotPositions(s) == {i \in 1..Len(s) : s[i] = "."}

\* float(s) for a text made of digits, '.' and '-'; Null stands for ValueError
ParseFloat(s) ==
    LET neg  == s # <<>> /\ Head(s) = "-"
        body == IF neg THEN Tail(s) ELSE s
        dots == DotPositions(body)
        dot  == IF dots = {} THEN Len(body) + 1 ELSE CHOOSE i \in dots : TRUE
        ipRaw == SubSeq(body, 1, dot - 1)
        fpRaw == SubSeq(body, dot + 1, Len(body))
    IN  IF Cardinality(dots) > 1 THEN Null
        ELSE IF ~AllDigits(ipRaw) \/ ~AllDigits(fpRaw) THEN Null
        ELSE IF ipRaw = <<>> /\ fpRaw = <<>> THEN Null
        ELSE PyFloat(neg, StripLeadingZeros(ipRaw), StripTrailingZeros(fpRaw))

\* abs(x) of a float
Abs(v) == IF IsNull(v) THEN v ELSE [v EXCEPT !.neg = FALSE]

(***************************************************************************)
(* clean_monetary_value                                                    *)
(***************************************************************************)
PlaceholderTokens ==
    { <<"n","u","l","l">>, <<"n","o","n","e">>, <<"n","/","a">>, <<"-">> }

\* the alternatives of r'\b(cr|dr|credit|debit)\b', in the order the regex tries them
DirectionWords ==
    << <<"c","r">>, <<"d","r">>, <<"c","r","e","d","i","t">>, <<"d","e","b","i","t">> >>

\* \b at the gap before position i of s (1 <= i <= Len(s)+1)
WordBoundary(s, i) ==
    LET before == i > 1 /\ IsWordChar(s[i - 1])
        after  == i <= Len(s) /\ IsWordChar(s[i])
    IN  before # after

\* the alternative w matches at position i, with \b on both sides
WordMatchesAt(s, i, w) ==
    /\ i + Len(w) - 1 <= Len(s)
    /\ LowerStr(SubSeq(s, i, i + Len(w) - 1)) = w
    /\ WordBoundary(s, i)
    /\ WordBoundary(s, i + Len(w))

\* length of the match of the alternation at position i, 0 when there is none
MatchLenAt(s, i) ==
    LET hits == {j \in 1..Len(DirectionWords) : WordMatchesAt(s, i, DirectionWords[j])}
    IN  IF hits = {} THEN 0
        ELSE Len(DirectionWords[CHOOSE j \in hits : \A h \in hits : j <= h])

\* re.sub(r'\b(cr|dr|credit|debit)\b', '', s, flags=re.IGNORECASE), scanning from i
RECURSIVE RemoveDirectionFrom(_, _)
RemoveDirectionFrom(s, i) ==
    IF i > Len(s) THEN <<>>
    ELSE IF MatchLenAt(s, i) > 0 THEN RemoveDirectionFrom(s, i + MatchLenAt(s, i))
    ELSE <<s[i]>> \o RemoveDirectionFrom(s, i + 1)

RemoveDirectionMarkers(s) == RemoveDirectionFrom(s, 1)

\* the character class [₹$£€¥₹Rs\.USD\s]: it lists the decimal point
IsCurrencyChar(c) ==
    c \in {"₹", "$", "£", "€", "¥", "R", "s", ".", "U", "S", "D"} \/ IsSpace(c)

RemoveCurrency(s) == SelectSeq(s, LAMBDA c : ~IsCurrencyChar(c))

IsComma(c) == c = ","

RemoveCommas(s) == SelectSeq(s, LAMBDA c : ~IsComma(c))

\* the class [^\d\.\-]
IsNotNumeric(c) == ~(c \in Digits \/ c = "." \/ c = "-")

KeepNumeric(s) == SelectSeq(s, LAMBDA c : ~IsNotNumeric(c))

clean_monetary_value(value) ==
    IF IsNull(value) \/ value = Str(<<>>) THEN Null
    ELSE LET str_value == Strip(PyStr(value))
         IN  IF str_value = <<>> \/ LowerStr(str_value) \in PlaceholderTokens THEN Null
             ELSE LET cleaned ==
                          KeepNumeric(RemoveCommas(RemoveCurrency(
                              RemoveDirectionMarkers(str_value))))
                  IN  IF cleaned = <<>> THEN Null
                      ELSE Abs(ParseFloat(cleaned))

(***************************************************************************)
(* Column descriptors and the post-validation of extract_headers_only      *)
(* A descriptor is the JSON object the oracle returned for one column; a   *)
(* key the oracle left out holds Missing, a JSON null holds Null.          *)
(***************************************************************************)
Missing == [t |-> "missing", s |-> <<>>, neg |-> FALSE, ip |-> <<>>, fp |-> <<>>]

\* Python truthiness of a JSON scalar (or of dict.get on an absent key)
Truthy(v) ==
    CASE v.t = "str"   -> v.s # <<>>
      [] v.t = "int"   -> v.ip # <<"0">>
      [] v.t = "float" -> ~(v.ip = <<"0">> /\ v.fp = <<>>)
      [] OTHER         -> FALSE

Descriptor(pos, header, dtype, field) ==
    [position |-> pos, header_name |-> header, data_type |-> dtype,
     standardized_field |-> field]

F_date == <<"d","a","t","e">>

F_description == <<"d","e","s","c","r","i","p","t","i","o","n">>

F_debit == <<"d","e","b","i","t">>

F_credit == <<"c","r","e","d","i","t">>

F_running_balance == <<"r","u","n","n","i","n","g","_","b","a","l","a","n","c","e">>

F_reference == <<"r","e","f","e","r","e","n","c","e">>

F_transaction_id == <<"t","r","a","n","s","a","c","t","i","o","n","_","i","d">>

F_custom_field == <<"c","u","s","t","o","m","_","f","i","e","l","d">>

F_unknown == <<"u","n","k","n","o","w","n">>

RECURSIVE Flatten(_)
Flatten(ss) == IF ss = <<>> THEN <<>> ELSE Head(ss) \o Flatten(Tail(ss))

\* header_name.lower().replace(' ','_').replace('.','').replace('#','no')
\*            .replace('/','_').replace('-','_').replace('(','').replace(')','')
DedupSlugChar(c) ==
    CASE c = " " -> <<"_">>
      [] c = "." -> <<>>
      [] c = "#" -> <<"n","o">>
      [] c = "/" -> <<"_">>
      [] c = "-" -> <<"_">>
      [] c = "(" -> <<>>
      [] c = ")" -> <<>>
      [] OTHER   -> <<LowerChar(c)>>

DedupSlug(h) == Flatten([i \in 1..Len(h) |-> DedupSlugChar(h[i])])

\* header_name.lower().replace(' ','_').replace('.','').replace('#','no')
BackfillSlugChar(c) ==
    CASE c = " " -> <<"_">>
      [] c = "." -> <<>>
      [] c = "#" -> <<"n","o">>
      [] OTHER   -> <<LowerChar(c)>>

BackfillSlug(h) == Flatten([i \in 1..Len(h) |-> BackfillSlugChar(h[i])])

DigitChars == <<"0","1","2","3","4","5","6","7","8","9">>

\* str(n) for a natural number
RECURSIVE NatToText(_)
NatToText(n) ==
    IF n < 10 THEN <<DigitChars[n + 1]>>
    ELSE NatToText(n \div 10) \o <<DigitChars[(n % 10) + 1]>>

\* the while loop: new_field, then new_field_2, new_field_3, ... until unseen
RECURSIVE UniqueName(_, _, _)
UniqueName(new_field, counter, seen_fields) ==
    LET temp_field == new_field \o <<"_">> \o NatToText(counter)
    IN  IF temp_field \in seen_fields
        THEN UniqueName(new_field, counter + 1, seen_fields)
        ELSE temp_field

\* col.get('header_name', default): the default only replaces an absent key
HeaderOr(col, default) ==
    IF col.header_name = Missing THEN Str(default) ELSE col.header_name

\* the de-duplication pass from column i on; raised stands for the
\* AttributeError of None.lower()
RECURSIVE DedupFrom(_, _, _)
DedupFrom(cols, i, seen_fields) ==
    IF i > Len(cols) THEN [raised |-> FALSE, cols |-> cols]
    ELSE LET original_field == cols[i].standardized_field
         IN  IF ~Truthy(original_field) THEN DedupFrom(cols, i + 1, seen_fields)
             ELSE IF original_field.s \in seen_fields
             THEN LET header_name == HeaderOr(cols[i], F_custom_field)
                  IN  IF header_name.t # "str" THEN [raised |-> TRUE, cols |-> cols]
                      ELSE LET slug      == DedupSlug(header_name.s)
                               new_field == IF slug \in seen_fields
                                            THEN UniqueName(slug, 2, seen_fields)
                                            ELSE slug
                           IN  DedupFrom(
                                   [cols EXCEPT ![i].standardized_field = Str(new_field)],
                                   i + 1, seen_fields \cup {new_field})
             ELSE DedupFrom(cols, i + 1, seen_fields \cup {original_field.s})

DedupPass(cols) == DedupFrom(cols, 1, {})

\* the name the backfill pass derives from data_type
DefaultField(data_type) ==
    CASE data_type = "date"        -> F_date
      [] data_type = "description" -> F_description
      [] data_type = "debit"       -> F_debit
      [] data_type = "credit"      -> F_credit
      [] data_type = "balance"     -> F_running_balance
      [] data_type = "reference"   -> F_reference
      [] OTHER                     -> <<>>

NamedTypes == {"date", "description", "debit", "credit", "balance", "reference"}

\* one column of the backfill pass
BackfillRaises(col) ==
    /\ ~Truthy(col.standardized_field)
    /\ col.data_type \notin NamedTypes
    /\ HeaderOr(col, F_unknown).t # "str"

BackfillCol(col) ==
    IF Truthy(col.standardized_field) THEN col
    ELSE IF col.data_type \in NamedTypes
    THEN [col EXCEPT !.standardized_field = Str(DefaultField(col.data_type))]
    ELSE [col EXCEPT !.standardized_field = Str(BackfillSlug(HeaderOr(col, F_unknown).s))]

BackfillPass(cols) ==
    IF \E i \in 1..Len(cols) : BackfillRaises(cols[i])
    THEN [raised |-> TRUE, cols |-> cols]
    ELSE [raised |-> FALSE, cols |-> [i \in 1..Len(cols) |-> BackfillCol(cols[i])]]

\* lines 182-242: de-duplication, then backfill
PostValidate(column_order) ==
    LET deduped == DedupPass(column_order)
    IN  IF deduped.raised THEN deduped ELSE BackfillPass(deduped.cols)

\* the standardized_field names of a validated schema, in position order
FieldNames(cols) == [i \in 1..Len(cols) |-> cols[i].standardized_field.s]

SeqToSet(q) == {q[i] : i \in 1..Len(q)}

NoDuplicates(q) == \A i, j \in 1..Len(q) : q[i] = q[j] => i = j

(***************************************************************************)
(* Transaction records: a Python dict, kept as its items in insertion      *)
(* order, each item a key (text) and a JSON scalar                         *)
(***************************************************************************)
Item(k, v) == [k |-> k, v |-> v]

Keys(tx) == [i \in 1..Len(tx) |-> tx[i].k]

HasKey(tx, k) == \E i \in 1..Len(tx) : tx[i].k = k

\* tx[k]
Get(tx, k) == tx[CHOOSE i \in 1..Len(tx) : tx[i].k = k].v

\* tx.get(k): None for an absent key
GetOrNull(tx, k) == IF HasKey(tx, k) THEN Get(tx, k) ELSE Null

\* tx[k] = v: an existing key keeps its place, a new key goes last
SetKey(tx, k, v) ==
    IF HasKey(tx, k)
    THEN [i \in 1..Len(tx) |-> IF tx[i].k = k THEN Item(k, v) ELSE tx[i]]
    ELSE Append(tx, Item(k, v))

\* an element of the list the oracle returned: a dict, or something else
DictEntry(tx) == [kind |-> "dict", items |-> tx]

NullEntry == [kind |-> "null", items |-> <<>>]

\* line 557: [tx for tx in result if tx and isinstance(tx, dict)]
ValidTransactions(result) ==
    LET kept == SelectSeq(result, LAMBDA e : e.kind = "dict" /\ e.items # <<>>)
    IN  [i \in 1..Len(kept) |-> kept[i].items]

MonetaryTypes == {"debit", "credit", "balance"}

\* lines 561-567 for one record, from column i on
RECURSIVE CleanMonetaryFrom(_, _, _)
CleanMonetaryFrom(tx, cols, i) ==
    IF i > Len(cols) THEN tx
    ELSE LET field == cols[i].standardized_field.s
         IN  IF cols[i].data_type \in MonetaryTypes /\ HasKey(tx, field)
             THEN CleanMonetaryFrom(SetKey(tx, field, clean_monetary_value(Get(tx, field))),
                                    cols, i + 1)
             ELSE CleanMonetaryFrom(tx, cols, i + 1)

\* lines 448-452
RECURSIVE PositiveFieldsFrom(_, _)
PositiveFieldsFrom(cols, i) ==
    IF i > Len(cols) THEN <<>>
    ELSE (IF cols[i].data_type \in {"debit", "credit"} /\ Truthy(cols[i].standardized_field)
          THEN <<cols[i].standardized_field.s>> ELSE <<>>)
         \o PositiveFieldsFrom(cols, i + 1)

PositiveFields(cols) == PositiveFieldsFrom(cols, 1)

\* lines 458-462
RECURSIVE DateFieldsFrom(_, _)
DateFieldsFrom(cols, i) ==
    IF i > Len(cols) THEN <<>>
    ELSE (IF cols[i].data_type = "date" /\ Truthy(cols[i].standardized_field)
          THEN <<cols[i].standardized_field.s>> ELSE <<>>)
         \o DateFieldsFrom(cols, i + 1)

DateFields(cols) == DateFieldsFrom(cols, 1)

\* lines 570-574 for one record, from field i on
RECURSIVE CleanPositiveFrom(_, _, _)
CleanPositiveFrom(tx, fields, i) ==
    IF i > Len(fields) THEN tx
    ELSE IF HasKey(tx, fields[i]) /\ ~IsNull(Get(tx, fields[i]))
    THEN CleanPositiveFrom(SetKey(tx, fields[i], clean_monetary_value(Get(tx, fields[i]))),
                           fields, i + 1)
    ELSE CleanPositiveFrom(tx, fields, i + 1)

T_01Jan2024 == <<"0","1","-","J","a","n","-","2","0","2","4">>

T_20240101 == <<"2","0","2","4","-","0","1","-","0","1">>

T_20240102 == <<"2","0","2","4","-","0","1","-","0","2">>

T_19700101 == <<"1","9","7","0","-","0","1","-","0","1">>

T_19691231 == <<"1","9","6","9","-","1","2","-","3","1">>

\* the date texts pandas parses in this model, with their '%Y-%m-%d' form
ParsedDates == { <<T_01Jan2024, T_20240101>>,
                 <<T_20240101, T_20240101>>,
                 <<T_20240102, T_20240102>> }

\* lines 583-585: pd.to_datetime(v, errors='coerce') then strftime('%Y-%m-%d').
\* A text pandas cannot parse gives NaT and the field keeps its value; a
\* number is read as nanoseconds since 1970-01-01.
StandardizeDate(v) ==
    CASE v.t = "str" ->
             IF \E d \in ParsedDates : d[1] = v.s
             THEN Str((CHOOSE d \in ParsedDates : d[1] = v.s)[2])
             ELSE v
      [] IsNumber(v) -> IF v.neg THEN Str(T_19691231) ELSE Str(T_19700101)
      [] OTHER -> v

\* lines 577-588 for one record, from field i on
RECURSIVE StandardizeDatesFrom(_, _, _)
StandardizeDatesFrom(tx, fields, i) ==
    IF i > Len(fields) THEN tx
    ELSE IF HasKey(tx, fields[i]) /\ Truthy(Get(tx, fields[i]))
    THEN StandardizeDatesFrom(SetKey(tx, fields[i], StandardizeDate(Get(tx, fields[i]))),
                              fields, i + 1)
    ELSE StandardizeDatesFrom(tx, fields, i + 1)

\* lines 559-588 for one record
PostProcess(tx, cols) ==
    StandardizeDatesFrom(
        CleanPositiveFrom(CleanMonetaryFrom(tx, cols, 1), PositiveFields(cols), 1),
        DateFields(cols), 1)

\* lines 556-588: the records one page contributes
PageTransactions(result, cols) ==
    LET valid_transactions == ValidTransactions(result)
    IN  [i \in 1..Len(valid_transactions) |-> PostProcess(valid_transactions[i], cols)]

\* the identifiers numbered from 0: tx['transaction_id'] = i
AddTransactionIdsFromZero(txs) ==
    [i \in 1..Len(txs) |-> SetKey(txs[i], F_transaction_id, PyInt(FALSE, NatToText(i - 1)))]

\* lines 613-614: tx['transaction_id'] = i + 1
AddTransactionIds(txs) ==
    [i \in 1..Len(txs) |-> SetKey(txs[i], F_transaction_id, PyInt(FALSE, NatToText(i)))]

\* pd.DataFrame(list of dicts).columns: the keys in order of first appearance
RECURSIVE AppendNew(_, _)
AppendNew(columns, ks) ==
    IF ks = <<>> THEN columns
    ELSE IF Head(ks) \in SeqToSet(columns) THEN AppendNew(columns, Tail(ks))
    ELSE AppendNew(Append(columns, Head(ks)), Tail(ks))

RECURSIVE DataFrameColumns(_)
DataFrameColumns(txs) ==
    IF txs = <<>> THEN <<>>
    ELSE AppendNew(DataFrameColumns(SubSeq(txs, 1, Len(txs) - 1)), Keys(txs[Len(txs)]))

standard_columns ==
    <<F_transaction_id, F_date, F_description, F_debit, F_credit,
      F_running_balance, F_reference>>

\* lines 621-623
FinalColumns(df_columns) ==
    LET present == SelectSeq(standard_columns, LAMBDA c : c \in SeqToSet(df_columns))
    IN  present \o SelectSeq(df_columns, LAMBDA c : c \notin SeqToSet(present))

\* lines 618-626: the table written to output_path; a cell no record key
\* fills is empty (NaN), modelled as Null
OutputTable(txs) ==
    LET final_columns == FinalColumns(DataFrameColumns(txs))
    IN  [columns |-> final_columns,
         rows |-> [i \in 1..Len(txs) |->
                     [j \in 1..Len(final_columns) |->
                        Item(final_columns[j], GetOrNull(txs[i], final_columns[j]))]]]

NoOutput == [columns |-> <<>>, rows |-> <<>>]

\* lines 294-296: the previous transaction as it enters the prompt
\* (isinstance(v, (str, int, float, bool)) drops the null values)
SafeLastTx(last_transaction) == SelectSeq(last_transaction, LAMBDA it : ~IsNull(it.v))

(***************************************************************************)
(* Inputs of the normalizer                                                *)
(***************************************************************************)
MoneyAlphabet == {"1", "5", "0", ".", ",", "-", " ", "C", "r", "D"}

RECURSIVE TextsUpTo(_, _)
TextsUpTo(alphabet, n) ==
    IF n = 0 THEN {<<>>}
    ELSE LET shorter == TextsUpTo(alphabet, n - 1)
         IN  shorter \cup {Append(t, c) : t \in shorter, c \in alphabet}

Raw1142432Cr == <<"1",",","1","4","2",",","4","3","2",".","0","0","C","r">>

RawMinus500Dr == <<"-","5","0","0",".","0","0"," ","D","r">>

RawMinus500DrTight == <<"-","5","0","0",".","0","0","D","r">>

MoneyNumbers ==
    { PyFloat(FALSE, <<"1","2","5","0">>, <<"5">>),
      PyFloat(FALSE, <<"5","0","0">>, <<>>),
      PyFloat(TRUE,  <<"5","0","0">>, <<>>),
      PyFloat(FALSE, <<"0">>, <<>>),
      PyFloat(TRUE,  <<"0">>, <<>>),
      PyInt(FALSE, <<"5","0","0">>),
      PyInt(TRUE,  <<"5">>),
      PyInt(FALSE, <<"0">>) }

MoneyInputs ==
    {Null} \cup MoneyNumbers
        \cup {Str(t) : t \in TextsUpTo(MoneyAlphabet, MaxLen)}
        \cup {Str(Raw1142432Cr), Str(RawMinus500Dr), Str(RawMinus500DrTight)}

(***************************************************************************)
(* States in which a part of the program is not running                    *)
(***************************************************************************)
MoneyIdle == mpc = "idle" /\ mIn = Null /\ mOut = Null /\ mOut2 = Null

SchemaIdle ==
    /\ spc = "idle"
    /\ sIn = <<>>
    /\ sOut = [raised |-> FALSE, cols |-> <<>>]

Absent == [found |-> FALSE, column_order |-> <<>>]

RunIdle ==
    /\ pc = "idle"
    /\ pages = <<>>
    /\ hp = 1
    /\ attempt = 0
    /\ invocations = 0
    /\ column_structure = Absent
    /\ scan_log = <<>>
    /\ header_invoked = {}
    /\ page_num = 1
    /\ prompt_context = <<>>
    /\ all_transactions = <<>>
    /\ last_successful_transaction = <<>>
    /\ page_log = <<>>
    /\ tx_invoked = {}
    /\ written = FALSE
    /\ output = NoOutput

OrderIdle ==
    /\ opc = "idle"
    /\ script = "final"
    /\ page_count = 0
    /\ files = {}
    /\ page_files = <<>>
    /\ file_index = 1
    /\ sent = <<>>

\* final_json_data = {}
EmptyJson == [header |-> Missing, transactions |-> <<>>]

ChunkIdle ==
    /\ cpc = "idle"
    /\ chunk_page_files = <<>>
    /\ chunk_page_num = 1
    /\ final_json_data = EmptyJson
    /\ chunk_transactions = <<>>
    /\ chunk_log = <<>>
    /\ chunk_written = FALSE

AuxIdle == OrderIdle /\ ChunkIdle

(***************************************************************************)
(* The normalizer applied to an input, and again to its own result         *)
(***************************************************************************)
MoneyInit ==
    /\ mpc = "input"
    /\ mIn \in MoneyInputs
    /\ mOut = Null
    /\ mOut2 = Null
    /\ SchemaIdle
    /\ RunIdle
    /\ AuxIdle

MoneyClean ==
    /\ mpc = "input"
    /\ mOut' = clean_monetary_value(mIn)
    /\ mpc' = "cleaned"
    /\ UNCHANGED <<mIn, mOut2, schemaVars, runVars, auxVars>>

MoneyReclean ==
    /\ mpc = "cleaned"
    /\ mOut2' = clean_monetary_value(mOut)
    /\ mpc' = "recleaned"
    /\ UNCHANGED <<mIn, mOut, schemaVars, runVars, auxVars>>

MoneyNext == MoneyClean \/ MoneyReclean

SpecMoney == MoneyInit /\ [][MoneyNext]_vars

(***************************************************************************)
(* The post-validation applied to a column_order the oracle returned       *)
(***************************************************************************)
H_Date == <<"D","a","t","e">>

H_ValueDate == <<"V","a","l","u","e"," ","D","a","t","e">>

F_value_date == <<"v","a","l","u","e","_","d","a","t","e">>

SchemaHeaderChoices == {Str(H_ValueDate), Null, Missing}

SchemaTypeChoices == {"date", "other"}

SchemaFieldChoices == {Missing, Str(<<>>), Str(F_date), Str(F_value_date)}

\* every non-empty column_order of at most MaxCols descriptors
ColumnOrders ==
    UNION { { [i \in 1..n |-> Descriptor(i, h[i], d[i], f[i])] :
                h \in [1..n -> SchemaHeaderChoices],
                d \in [1..n -> SchemaTypeChoices],
                f \in [1..n -> SchemaFieldChoices] } : n \in 1..MaxCols }

SchemaInit ==
    /\ spc = "returned"
    /\ sIn \in ColumnOrders
    /\ sOut = [raised |-> FALSE, cols |-> <<>>]
    /\ MoneyIdle
    /\ RunIdle
    /\ AuxIdle

SchemaValidate ==
    /\ spc = "returned"
    /\ sOut' = PostValidate(sIn)
    /\ spc' = "validated"
    /\ UNCHANGED <<sIn, moneyVars, runVars, auxVars>>

SchemaNext == SchemaValidate

SpecSchema == SchemaInit /\ [][SchemaNext]_vars

(***************************************************************************)
(* The per-page files: how each script names them, sorts them and walks    *)
(* through them.  What the oracle answers for a page plays no part in the  *)
(* order and is left out here.                                             *)
(***************************************************************************)
MaxFiles == 11

\* ord(c) for the characters of a page file name
CodePoint(c) ==
    CASE c = "." -> 46
      [] c \in Digits -> 47 + (CHOOSE i \in 1..10 : DigitChars[i] = c)
      [] c = "_" -> 95
      [] c = "a" -> 97
      [] c = "d" -> 100
      [] c = "e" -> 101
      [] c = "f" -> 102
      [] c = "g" -> 103
      [] c = "p" -> 112
      [] c = "t" -> 116
      [] c = "x" -> 120

\* a < b for two Python strings
RECURSIVE StrLess(_, _)
StrLess(a, b) ==
    IF a = <<>> THEN b # <<>>
    ELSE IF b = <<>> THEN FALSE
    ELSE IF Head(a) = Head(b) THEN StrLess(Tail(a), Tail(b))
    ELSE CodePoint(Head(a)) < CodePoint(Head(b))

\* sorted(names) for a collection of distinct names
RECURSIVE SortedNames(_)
SortedNames(names) ==
    IF names = {} THEN <<>>
    ELSE LET least == CHOOSE x \in names : \A y \in names \ {x} : StrLess(x, y)
         IN  <<least>> \o SortedNames(names \ {least})

\* f"{n:03}"
ZeroPad3(n) ==
    LET digits == NatToText(n)
    IN  IF Len(digits) >= 3 THEN digits
        ELSE [i \in 1..(3 - Len(digits)) |-> "0"] \o digits

\* final.py line 503: f"page_{i+1:03}.pdf"
FinalPageName(n) == <<"p","a","g","e","_">> \o ZeroPad3(n) \o <<".","p","d","f">>

\* intelligenet_page_parser.py line 31: f"page_{page_num}.txt"
ChunkPageName(n) == <<"p","a","g","e","_">> \o NatToText(n) \o <<".","t","x","t">>

PageName(n) == IF script = "final" THEN FinalPageName(n) ELSE ChunkPageName(n)

\* the physical page a file holds
PageNumberOf(name) == CHOOSE n \in 1..page_count : PageName(n) = name

OrderInit ==
    /\ opc = "split"
    /\ script \in {"final", "chunked"}
    /\ page_count \in 0..MaxFiles
    /\ files = {}
    /\ page_files = <<>>
    /\ file_index = 1
    /\ sent = <<>>
    /\ MoneyIdle
    /\ SchemaIdle
    /\ RunIdle
    /\ ChunkIdle

\* final.py lines 499-505: one PDF file per page
FinalSplitPages ==
    /\ opc = "split"
    /\ script = "final"
    /\ files' = {FinalPageName(n) : n \in 1..page_count}
    /\ opc' = "sort"
    /\ UNCHANGED <<script, page_count, page_files, file_index, sent,
                   moneyVars, schemaVars, runVars, chunkVars>>

\* intelligenet_page_parser.py lines 30-34: one text file per page
ParsePdfByPage ==
    /\ opc = "split"
    /\ script = "chunked"
    /\ files' = {ChunkPageName(n) : n \in 1..page_count}
    /\ opc' = "sort"
    /\ UNCHANGED <<script, page_count, page_files, file_index, sent,
                   moneyVars, schemaVars, runVars, chunkVars>>

\* final.py line 510: page_files = sorted(glob.glob(os.path.join(temp_dir, "*.pdf")))
FinalSortPages ==
    /\ opc = "sort"
    /\ script = "final"
    /\ page_files' = SortedNames(files)
    /\ file_index' = 1
    /\ opc' = "walk"
    /\ UNCHANGED <<script, page_count, files, sent, moneyVars, schemaVars, runVars, chunkVars>>

\* run_chunked_pipleline.py line 69:
\* page_files = sorted(glob.glob(os.path.join(args.input_dir, "page_*.txt")))
ChunkSortPages ==
    /\ opc = "sort"
    /\ script = "chunked"
    /\ page_files' = SortedNames(files)
    /\ file_index' = 1
    /\ opc' = "walk"
    /\ UNCHANGED <<script, page_count, files, sent, moneyVars, schemaVars, runVars, chunkVars>>

\* final.py line 513: for i, page_pdf in enumerate(page_files)
FinalNextPage ==
    /\ opc = "walk"
    /\ script = "final"
    /\ file_index <= Len(page_files)
    /\ sent' = Append(sent, PageNumberOf(page_files[file_index]))
    /\ file_index' = file_index + 1
    /\ UNCHANGED <<opc, script, page_count, files, page_files,
                   moneyVars, schemaVars, runVars, chunkVars>>

\* run_chunked_pipleline.py lines 80-83 (page_files[0]) and 96-100
\* (page_files[i] for i in range(1, len(page_files)))
ChunkNextPage ==
    /\ opc = "walk"
    /\ script = "chunked"
    /\ file_index <= Len(page_files)
    /\ sent' = Append(sent, PageNumberOf(page_files[file_index]))
    /\ file_index' = file_index + 1
    /\ UNCHANGED <<opc, script, page_count, files, page_files,
                   moneyVars, schemaVars, runVars, chunkVars>>

\* the loop over page_files is over
WalkDone ==
    /\ opc = "walk"
    /\ file_index > Len(page_files)
    /\ opc' = "done"
    /\ UNCHANGED <<script, page_count, files, page_files, file_index, sent,
                   moneyVars, schemaVars, runVars, chunkVars>>

OrderNext ==
    \/ FinalSplitPages
    \/ ParsePdfByPage
    \/ FinalSortPages
    \/ ChunkSortPages
    \/ FinalNextPage
    \/ ChunkNextPage
    \/ WalkDone

SpecOrder == OrderInit /\ [][OrderNext]_vars

(***************************************************************************)
(* What the oracle may answer                                              *)
(***************************************************************************)
H_Particulars == <<"P","a","r","t","i","c","u","l","a","r","s">>

H_Withdrawal == <<"W","i","t","h","d","r","a","w","a","l">>

H_Deposit == <<"D","e","p","o","s","i","t">>

H_Balance == <<"B","a","l","a","n","c","e">>

H_TxnDate == <<"T","x","n"," ","D","a","t","e">>

H_ChqNo == <<"C","h","q"," ","N","o",".">>

H_Amount == <<"A","m","o","u","n","t">>

F_note == <<"n","o","t","e">>

F_chq_no == <<"c","h","q","_","n","o">>

\* the parsed answer of the header chain
HeaderResult(is_dict, table_found, column_order) ==
    [is_dict |-> is_dict, table_found |-> table_found, column_order |-> column_order]

\* Date | Particulars | Withdrawal | Deposit | Balance
StandardColumns ==
    << Descriptor(1, Str(H_Date), "date", Str(F_date)),
       Descriptor(2, Str(H_Particulars), "description", Str(F_description)),
       Descriptor(3, Str(H_Withdrawal), "debit", Str(F_debit)),
       Descriptor(4, Str(H_Deposit), "credit", Str(F_credit)),
       Descriptor(5, Str(H_Balance), "balance", Str(F_running_balance)) >>

\* a column without a name, a column that already uses the name the first
\* will be given, a repeated name, and a custom column without a name
IrregularColumns ==
    << Descriptor(1, Str(H_Date), "date", Missing),
       Descriptor(2, Str(H_Amount), "debit", Str(F_date)),
       Descriptor(3, Str(H_ValueDate), "date", Str(F_date)),
       Descriptor(4, Str(H_ChqNo), "other", Missing) >>

\* a repeated name on a column whose header is null
NullHeaderColumns ==
    << Descriptor(1, Str(H_Date), "date", Str(F_date)),
       Descriptor(2, Null, "date", Str(F_date)) >>

HeaderResults ==
    { HeaderResult(FALSE, FALSE, <<>>),
      HeaderResult(TRUE, FALSE, StandardColumns),
      HeaderResult(TRUE, TRUE, <<>>),
      HeaderResult(TRUE, TRUE, NullHeaderColumns),
      HeaderResult(TRUE, TRUE, StandardColumns),
      HeaderResult(TRUE, TRUE, IrregularColumns) }

\* lines 174-176
HeaderAccepted(result) ==
    result.is_dict /\ result.table_found /\ result.column_order # <<>>

T_SalaryCredit == <<"S","A","L","A","R","Y"," ","C","R","E","D","I","T">>

T_garbage == <<"g","a","r","b","a","g","e">>

T_x == <<"x">>

T_5Dr == <<"5"," ","D","r">>

\* 01-Jan-2024 | SALARY CREDIT | | 50000.00 | 75000.00
SalaryRecord ==
    << Item(F_date, Str(T_01Jan2024)),
       Item(F_description, Str(T_SalaryCredit)),
       Item(F_debit, Null),
       Item(F_credit, PyFloat(FALSE, <<"5","0","0","0","0">>, <<>>)),
       Item(F_running_balance, PyFloat(FALSE, <<"7","5","0","0","0">>, <<>>)) >>

\* a record that leaves schema keys out
PartialRecord ==
    << Item(F_date, Str(T_5Dr)),
       Item(F_debit, Str(RawMinus500Dr)) >>

\* a record with a key of its own, a date pandas cannot parse and an
\* identifier of the oracle's making
ExtraRecord ==
    << Item(F_note, Str(T_x)),
       Item(F_date, Str(T_garbage)),
       Item(F_debit, PyFloat(FALSE, <<"1","2","5","0">>, <<"5">>)),
       Item(F_transaction_id, Str(T_x)) >>

TxResult(is_list, entries) == [is_list |-> is_list, entries |-> entries]

TxResults ==
    { TxResult(FALSE, <<>>),
      TxResult(TRUE, <<>>),
      TxResult(TRUE, <<DictEntry(SalaryRecord)>>),
      TxResult(TRUE, <<NullEntry, DictEntry(PartialRecord), DictEntry(<<>>),
                       DictEntry(ExtraRecord)>>) }

(***************************************************************************)
(* run_improved_docling_pipeline                                           *)
(***************************************************************************)
PageRenderings == {"blank", "text"}

Init ==
    /\ pc = "scan"
    /\ pages \in UNION {[1..n -> PageRenderings] : n \in 0..MaxPages}
    /\ hp = 1
    /\ attempt = 0
    /\ invocations = 0
    /\ column_structure = Absent
    /\ scan_log = <<>>
    /\ header_invoked = {}
    /\ page_num = 1
    /\ prompt_context = <<>>
    /\ all_transactions = <<>>
    /\ last_successful_transaction = <<>>
    /\ page_log = <<>>
    /\ tx_invoked = {}
    /\ written = FALSE
    /\ output = NoOutput
    /\ MoneyIdle
    /\ SchemaIdle
    /\ AuxIdle

\* an entry of scan_log: the outcome for one page and the result the header
\* chain returned for it (NoResult when it returned none)
Scanned(status, result) == [status |-> status, result |-> result]

NoResult == HeaderResult(FALSE, FALSE, <<>>)

Min(a, b) == IF a <= b THEN a ELSE b

\* line 139
pages_to_scan == Min(max_pages_to_scan, Len(pages))

loopVars == <<page_num, prompt_context, all_transactions,
              last_successful_transaction, page_log, tx_invoked, written, output>>

\* lines 165-166: the page rendered empty, continue with the next page
ScanBlankPage ==
    /\ pc = "scan"
    /\ hp <= pages_to_scan
    /\ pages[hp] = "blank"
    /\ hp' = hp + 1
    /\ scan_log' = Append(scan_log, Scanned("blank", NoResult))
    /\ UNCHANGED <<pc, pages, attempt, invocations, column_structure, header_invoked, loopVars,
                   moneyVars, schemaVars, auxVars>>

\* lines 168-172: the page has text, the header chain is about to be invoked
ScanTextPage ==
    /\ pc = "scan"
    /\ hp <= pages_to_scan
    /\ pages[hp] = "text"
    /\ pc' = "header_call"
    /\ attempt' = 0
    /\ invocations' = 0
    /\ UNCHANGED <<pages, hp, column_structure, scan_log, header_invoked, loopVars,
                   moneyVars, schemaVars, auxVars>>

\* lines 252-253: the scan window is exhausted, return None
ScanExhausted ==
    /\ pc = "scan"
    /\ hp > pages_to_scan
    /\ column_structure' = Absent
    /\ pc' = "schema_check"
    /\ UNCHANGED <<pages, hp, attempt, invocations, scan_log, header_invoked, loopVars,
                   moneyVars, schemaVars, auxVars>>

\* parse_with_retry, lines 65-68: the attempt raised and is retried
HeaderAttemptRetry ==
    /\ pc = "header_call"
    /\ attempt < max_retries
    /\ attempt' = attempt + 1
    /\ invocations' = invocations + 1
    /\ header_invoked' = header_invoked \cup {hp}
    /\ UNCHANGED <<pc, pages, hp, column_structure, scan_log, loopVars, moneyVars, schemaVars, auxVars>>

\* parse_with_retry, lines 69-71, caught at lines 244-246
HeaderAttemptsFailed ==
    /\ pc = "header_call"
    /\ attempt = max_retries
    /\ hp' = hp + 1
    /\ scan_log' = Append(scan_log, Scanned("raised", NoResult))
    /\ header_invoked' = header_invoked \cup {hp}
    /\ pc' = "scan"
    /\ attempt' = 0
    /\ invocations' = 0
    /\ UNCHANGED <<pages, column_structure, loopVars, moneyVars, schemaVars, auxVars>>

\* lines 172-176: the chain returned a result the condition turns down
HeaderRejected(result) ==
    /\ pc = "header_call"
    /\ ~HeaderAccepted(result)
    /\ hp' = hp + 1
    /\ scan_log' = Append(scan_log, Scanned("rejected", result))
    /\ header_invoked' = header_invoked \cup {hp}
    /\ pc' = "scan"
    /\ attempt' = 0
    /\ invocations' = 0
    /\ UNCHANGED <<pages, column_structure, loopVars, moneyVars, schemaVars, auxVars>>

\* lines 178-246: the post-validation raised, caught at line 244
HeaderInvalid(result) ==
    /\ pc = "header_call"
    /\ HeaderAccepted(result)
    /\ PostValidate(result.column_order).raised
    /\ hp' = hp + 1
    /\ scan_log' = Append(scan_log, Scanned("invalid", result))
    /\ header_invoked' = header_invoked \cup {hp}
    /\ pc' = "scan"
    /\ attempt' = 0
    /\ invocations' = 0
    /\ UNCHANGED <<pages, column_structure, loopVars, moneyVars, schemaVars, auxVars>>

\* the column structure is kept but the scan goes on instead of returning
HeaderFoundNoReturn(result) ==
    /\ pc = "header_call"
    /\ HeaderAccepted(result)
    /\ ~PostValidate(result.column_order).raised
    /\ column_structure' =
           [found |-> TRUE, column_order |-> PostValidate(result.column_order).cols]
    /\ scan_log' = Append(scan_log, Scanned("accepted", result))
    /\ header_invoked' = header_invoked \cup {hp}
    /\ hp' = hp + 1
    /\ pc' = "scan"
    /\ attempt' = 0
    /\ invocations' = 0
    /\ UNCHANGED <<pages, loopVars, moneyVars, schemaVars, auxVars>>

\* lines 178-242: the post-validated column structure is returned
HeaderFound(result) ==
    /\ pc = "header_call"
    /\ HeaderAccepted(result)
    /\ ~PostValidate(result.column_order).raised
    /\ column_structure' =
           [found |-> TRUE, column_order |-> PostValidate(result.column_order).cols]
    /\ scan_log' = Append(scan_log, Scanned("accepted", result))
    /\ header_invoked' = header_invoked \cup {hp}
    /\ pc' = "schema_check"
    /\ attempt' = 0
    /\ invocations' = 0
    /\ UNCHANGED <<pages, hp, loopVars, moneyVars, schemaVars, auxVars>>

\* the run goes on to the page loop without a column structure
SchemaAbsentContinue ==
    /\ pc = "schema_check"
    /\ ~column_structure.found
    /\ hp' = 1
    /\ scan_log' = <<>>
    /\ header_invoked' = {}
    /\ pc' = "page"
    /\ UNCHANGED <<pages, attempt, invocations, column_structure, loopVars, moneyVars, schemaVars, auxVars>>

\* lines 443-445: no column structure, the run returns (the locals of
\* extract_headers_only, with hp, scan_log and header_invoked, are gone once it has returned)
SchemaAbsentExit ==
    /\ pc = "schema_check"
    /\ ~column_structure.found
    /\ hp' = 1
    /\ scan_log' = <<>>
    /\ header_invoked' = {}
    /\ pc' = "done"
    /\ UNCHANGED <<pages, attempt, invocations, column_structure, loopVars, moneyVars, schemaVars, auxVars>>

\* lines 447-510: the column structure is known, the page loop starts
SchemaPresent ==
    /\ pc = "schema_check"
    /\ column_structure.found
    /\ hp' = 1
    /\ scan_log' = <<>>
    /\ header_invoked' = {}
    /\ page_num' = 1
    /\ pc' = "page"
    /\ UNCHANGED <<pages, attempt, invocations, column_structure, prompt_context,
                   all_transactions, last_successful_transaction, page_log,
                   tx_invoked, written, output, moneyVars, schemaVars, auxVars>>

discoveryVars == <<pages, hp, column_structure, scan_log, header_invoked>>

\* an entry of page_log: the outcome for one page, the list the oracle
\* returned for it and the records the page contributed
Visited(status, returned, kept) == [status |-> status, returned |-> returned, kept |-> kept]

\* lines 513-541: the prompt is built, the page rendered empty
PageBlank ==
    /\ pc = "page"
    /\ page_num <= Len(pages)
    /\ pages[page_num] = "blank"
    /\ prompt_context' = SafeLastTx(last_successful_transaction)
    /\ page_log' = Append(page_log, Visited("blank", <<>>, <<>>))
    /\ page_num' = page_num + 1
    /\ UNCHANGED <<pc, attempt, invocations, all_transactions, last_successful_transaction,
                   tx_invoked, written, output, discoveryVars, moneyVars, schemaVars, auxVars>>

\* building the prompt takes the first descriptor off the column structure
PageTextConsumesSchema ==
    /\ pc = "page"
    /\ page_num <= Len(pages)
    /\ pages[page_num] = "text"
    /\ prompt_context' = SafeLastTx(last_successful_transaction)
    /\ column_structure' =
           [column_structure EXCEPT !.column_order = Tail(column_structure.column_order)]
    /\ attempt' = 0
    /\ invocations' = 0
    /\ pc' = "tx_call"
    /\ UNCHANGED <<page_num, all_transactions, last_successful_transaction, page_log,
                   tx_invoked, written, output, pages, hp, scan_log, header_invoked,
                   moneyVars, schemaVars, auxVars>>

\* lines 513-550: the prompt is built, the page has text, the chain is about
\* to be invoked
PageText ==
    /\ pc = "page"
    /\ page_num <= Len(pages)
    /\ pages[page_num] = "text"
    /\ prompt_context' = SafeLastTx(last_successful_transaction)
    /\ attempt' = 0
    /\ invocations' = 0
    /\ pc' = "tx_call"
    /\ UNCHANGED <<page_num, all_transactions, last_successful_transaction, page_log,
                   tx_invoked, written, output, discoveryVars, moneyVars, schemaVars, auxVars>>

\* the retry guard reads attempt <= max_retries: one attempt too many
TxAttemptRetryOnceMore ==
    /\ pc = "tx_call"
    /\ attempt <= max_retries
    /\ attempt' = attempt + 1
    /\ invocations' = invocations + 1
    /\ tx_invoked' = tx_invoked \cup {page_num}
    /\ UNCHANGED <<pc, page_num, prompt_context, all_transactions,
                   last_successful_transaction, page_log, written, output,
                   discoveryVars, moneyVars, schemaVars, auxVars>>

\* parse_with_retry, lines 65-68
TxAttemptRetry ==
    /\ pc = "tx_call"
    /\ attempt < max_retries
    /\ attempt' = attempt + 1
    /\ invocations' = invocations + 1
    /\ tx_invoked' = tx_invoked \cup {page_num}
    /\ UNCHANGED <<pc, page_num, prompt_context, all_transactions,
                   last_successful_transaction, page_log, written, output,
                   discoveryVars, moneyVars, schemaVars, auxVars>>

\* the exception of the last attempt ends the page loop instead of the page
TxAttemptsFailedAbort ==
    /\ pc = "tx_call"
    /\ attempt = max_retries
    /\ tx_invoked' = tx_invoked \cup {page_num}
    /\ page_log' = Append(page_log, Visited("raised", <<>>, <<>>))
    /\ page_num' = Len(pages) + 1
    /\ pc' = "page"
    /\ attempt' = 0
    /\ invocations' = 0
    /\ UNCHANGED <<prompt_context, all_transactions,
                   last_successful_transaction, written, output,
                   discoveryVars, moneyVars, schemaVars, auxVars>>

\* parse_with_retry, lines 69-71, caught at lines 599-601
TxAttemptsFailed ==
    /\ pc = "tx_call"
    /\ attempt = max_retries
    /\ tx_invoked' = tx_invoked \cup {page_num}
    /\ page_log' = Append(page_log, Visited("raised", <<>>, <<>>))
    /\ page_num' = page_num + 1
    /\ pc' = "page"
    /\ attempt' = 0
    /\ invocations' = 0
    /\ UNCHANGED <<prompt_context, all_transactions,
                   last_successful_transaction, written, output,
                   discoveryVars, moneyVars, schemaVars, auxVars>>

\* lines 596-597: the result is not a list
TxNotAList(result) ==
    /\ pc = "tx_call"
    /\ ~result.is_list
    /\ tx_invoked' = tx_invoked \cup {page_num}
    /\ page_log' = Append(page_log, Visited("not_list", <<>>, <<>>))
    /\ page_num' = page_num + 1
    /\ pc' = "page"
    /\ attempt' = 0
    /\ invocations' = 0
    /\ UNCHANGED <<prompt_context, all_transactions,
                   last_successful_transaction, written, output,
                   discoveryVars, moneyVars, schemaVars, auxVars>>

\* a list without a valid record clears the context
TxListClearsContext(result) ==
    /\ pc = "tx_call"
    /\ result.is_list
    /\ LET valid_transactions ==
               PageTransactions(result.entries, column_structure.column_order)
       IN  /\ all_transactions' = all_transactions \o valid_transactions
           /\ last_successful_transaction' =
                  IF valid_transactions # <<>>
                  THEN valid_transactions[Len(valid_transactions)]
                  ELSE <<>>
           /\ page_log' = Append(page_log, Visited("list", result.entries, valid_transactions))
    /\ tx_invoked' = tx_invoked \cup {page_num}
    /\ page_num' = page_num + 1
    /\ pc' = "page"
    /\ attempt' = 0
    /\ invocations' = 0
    /\ UNCHANGED <<prompt_context, written, output,
                   discoveryVars, moneyVars, schemaVars, auxVars>>

\* lines 556-595: the result is a list
TxList(result) ==
    /\ pc = "tx_call"
    /\ result.is_list
    /\ LET valid_transactions ==
               PageTransactions(result.entries, column_structure.column_order)
       IN  /\ all_transactions' = all_transactions \o valid_transactions
           /\ last_successful_transaction' =
                  IF valid_transactions # <<>>
                  THEN valid_transactions[Len(valid_transactions)]
                  ELSE last_successful_transaction
           /\ page_log' = Append(page_log, Visited("list", result.entries, valid_transactions))
    /\ tx_invoked' = tx_invoked \cup {page_num}
    /\ page_num' = page_num + 1
    /\ pc' = "page"
    /\ attempt' = 0
    /\ invocations' = 0
    /\ UNCHANGED <<prompt_context, written, output,
                   discoveryVars, moneyVars, schemaVars, auxVars>>

\* lines 608-610: nothing was extracted, the run returns without writing
SaveNothing ==
    /\ pc = "page"
    /\ page_num > Len(pages)
    /\ all_transactions = <<>>
    /\ pc' = "done"
    /\ UNCHANGED <<attempt, invocations, loopVars, discoveryVars, moneyVars, schemaVars, auxVars>>

\* lines 612-626: transaction ids, column order, df.to_csv
SaveResults ==
    /\ pc = "page"
    /\ page_num > Len(pages)
    /\ all_transactions # <<>>
    /\ all_transactions' = AddTransactionIds(all_transactions)
    /\ last_successful_transaction' =
           IF last_successful_transaction = <<>> THEN <<>>
           ELSE AddTransactionIds(all_transactions)[Len(all_transactions)]
    /\ output' = OutputTable(AddTransactionIds(all_transactions))
    /\ written' = TRUE
    /\ pc' = "done"
    /\ UNCHANGED <<attempt, invocations, page_num, prompt_context, page_log, tx_invoked,
                   discoveryVars, moneyVars, schemaVars, auxVars>>

Next ==
    \/ ScanBlankPage
    \/ ScanTextPage
    \/ ScanExhausted
    \/ HeaderAttemptRetry
    \/ HeaderAttemptsFailed
    \/ \E result \in HeaderResults : HeaderRejected(result)
    \/ \E result \in HeaderResults : HeaderInvalid(result)
    \/ \E result \in HeaderResults : HeaderFound(result)
    \/ SchemaAbsentExit
    \/ SchemaPresent
    \/ PageBlank
    \/ PageText
    \/ TxAttemptRetry
    \/ TxAttemptsFailed
    \/ \E result \in TxResults : TxNotAList(result)
    \/ \E result \in TxResults : TxList(result)
    \/ SaveNothing
    \/ SaveResults

Spec == Init /\ [][Next]_vars

(***************************************************************************)
(* run_chunked_pipleline.py: page 1 with the first-page prompt, the other  *)
(* pages with the next-page prompt, one json.dump at the end               *)
(***************************************************************************)
\* an element of a list that is a one-character string
TextEntry == [kind |-> "str", items |-> <<>>]

\* what process_page returns: None (the call raised or no JSON was found), a
\* list, or a dict with or without a header key and a 'transactions' key
\* whose value is a list, null or a text
ChunkResult(shape, header, tx_shape, entries, text) ==
    [shape |-> shape, header |-> header, tx_shape |-> tx_shape,
     entries |-> entries, text |-> text]

NoneResult == ChunkResult("none", Missing, "missing", <<>>, <<>>)

ListResult(entries) == ChunkResult("list", Missing, "missing", entries, <<>>)

DictResult(header, tx_shape, entries, text) ==
    ChunkResult("dict", header, tx_shape, entries, text)

T_Acme == <<"A","c","m","e">>

MixedEntries == <<NullEntry, DictEntry(PartialRecord), DictEntry(<<>>)>>

FirstPageResults ==
    { NoneResult,
      ListResult(<<DictEntry(SalaryRecord)>>),
      DictResult(Missing, "missing", <<>>, <<>>),
      DictResult(Str(T_Acme), "missing", <<>>, <<>>),
      DictResult(Str(T_Acme), "list", <<DictEntry(SalaryRecord)>>, <<>>),
      DictResult(Missing, "list", MixedEntries, <<>>),
      DictResult(Missing, "null", <<>>, <<>>),
      DictResult(Str(T_Acme), "text", <<>>, T_x) }

NextPageResults ==
    { NoneResult,
      DictResult(Str(T_Acme), "list", <<DictEntry(SalaryRecord)>>, <<>>),
      ListResult(<<>>),
      ListResult(<<DictEntry(SalaryRecord)>>),
      ListResult(MixedEntries) }

\* bool(result)
ChunkTruthy(result) ==
    CASE result.shape = "none" -> FALSE
      [] result.shape = "list" -> result.entries # <<>>
      [] result.shape = "dict" ->
             ~(result.header = Missing /\ result.tx_shape = "missing")

\* line 85: result_page_1 and isinstance(result_page_1, dict)
FirstPageAccepted(result) == ChunkTruthy(result) /\ result.shape = "dict"

\* line 102: result_page_n and isinstance(result_page_n, list)
NextPageAccepted(result) == ChunkTruthy(result) /\ result.shape = "list"

\* line 87: result_page_1.get("transactions", []), as list.extend takes it:
\* a list gives its elements, a text its characters
Page1Transactions(result) ==
    CASE result.tx_shape = "list" -> result.entries
      [] result.tx_shape = "text" -> [i \in 1..Len(result.text) |-> TextEntry]
      [] OTHER -> <<>>

\* an entry of chunk_log
Processed(status, result) == [status |-> status, result |-> result]

ChunkInit ==
    /\ cpc = "start"
    /\ chunk_page_files \in {[i \in 1..n |-> i] : n \in 0..MaxPages}
    /\ chunk_page_num = 1
    /\ final_json_data = EmptyJson
    /\ chunk_transactions = <<>>
    /\ chunk_log = <<>>
    /\ chunk_written = FALSE
    /\ MoneyIdle
    /\ SchemaIdle
    /\ RunIdle
    /\ OrderIdle

\* lines 71-74: no page files, exit()
ChunkNoFiles ==
    /\ cpc = "start"
    /\ chunk_page_files = <<>>
    /\ cpc' = "exit"
    /\ UNCHANGED <<chunk_page_files, chunk_page_num, final_json_data, chunk_transactions,
                   chunk_log, chunk_written, moneyVars, schemaVars, runVars, orderVars>>

\* lines 80-90: page 1 answered with a non-empty dict
ChunkFirstPage(result) ==
    /\ cpc = "start"
    /\ chunk_page_files # <<>>
    /\ FirstPageAccepted(result)
    /\ result.tx_shape # "null"
    /\ chunk_transactions' = chunk_transactions \o Page1Transactions(result)
    /\ final_json_data' =
           [header |-> result.header,
            transactions |-> chunk_transactions \o Page1Transactions(result)]
    /\ chunk_log' = Append(chunk_log, Processed("ok", result))
    /\ chunk_page_num' = 2
    /\ cpc' = "next"
    /\ UNCHANGED <<chunk_page_files, chunk_written,
                   moneyVars, schemaVars, runVars, orderVars>>

\* lines 86-88: 'transactions' is null, all_transactions.extend(None) raises
\* TypeError and nothing catches it
ChunkFirstPageRaises(result) ==
    /\ cpc = "start"
    /\ chunk_page_files # <<>>
    /\ FirstPageAccepted(result)
    /\ result.tx_shape = "null"
    /\ final_json_data' = [header |-> result.header, transactions |-> <<>>]
    /\ chunk_log' = Append(chunk_log, Processed("raised", result))
    /\ cpc' = "exit"
    /\ UNCHANGED <<chunk_page_files, chunk_page_num, chunk_transactions, chunk_written,
                   moneyVars, schemaVars, runVars, orderVars>>

\* lines 91-93: FATAL ERROR, exit()
ChunkFirstPageFatal(result) ==
    /\ cpc = "start"
    /\ chunk_page_files # <<>>
    /\ ~FirstPageAccepted(result)
    /\ chunk_log' = Append(chunk_log, Processed("fatal", result))
    /\ cpc' = "exit"
    /\ UNCHANGED <<chunk_page_files, chunk_page_num, final_json_data, chunk_transactions,
                   chunk_written, moneyVars, schemaVars, runVars, orderVars>>

\* lines 96-104: a later page answered with a non-empty list.  The list
\* final_json_data['transactions'] is the same object as all_transactions.
ChunkNextPage_Ok(result) ==
    /\ cpc = "next"
    /\ chunk_page_num <= Len(chunk_page_files)
    /\ NextPageAccepted(result)
    /\ chunk_transactions' = chunk_transactions \o result.entries
    /\ final_json_data' =
           [final_json_data EXCEPT !.transactions = chunk_transactions \o result.entries]
    /\ chunk_log' = Append(chunk_log, Processed("ok", result))
    /\ chunk_page_num' = chunk_page_num + 1
    /\ UNCHANGED <<cpc, chunk_page_files, chunk_written,
                   moneyVars, schemaVars, runVars, orderVars>>

\* lines 105-106: Warning ... Skipping.
ChunkNextPage_Skipped(result) ==
    /\ cpc = "next"
    /\ chunk_page_num <= Len(chunk_page_files)
    /\ ~NextPageAccepted(result)
    /\ chunk_log' = Append(chunk_log, Processed("skipped", result))
    /\ chunk_page_num' = chunk_page_num + 1
    /\ UNCHANGED <<cpc, chunk_page_files, final_json_data, chunk_transactions,
                   chunk_written, moneyVars, schemaVars, runVars, orderVars>>

\* lines 109-114: final_json_data['transactions'] = all_transactions; json.dump
ChunkSave ==
    /\ cpc = "next"
    /\ chunk_page_num > Len(chunk_page_files)
    /\ final_json_data' = [final_json_data EXCEPT !.transactions = chunk_transactions]
    /\ chunk_written' = TRUE
    /\ cpc' = "done"
    /\ UNCHANGED <<chunk_page_files, chunk_page_num, chunk_transactions, chunk_log,
                   moneyVars, schemaVars, runVars, orderVars>>

ChunkNext ==
    \/ ChunkNoFiles
    \/ \E result \in FirstPageResults : ChunkFirstPage(result)
    \/ \E result \in FirstPageResults : ChunkFirstPageRaises(result)
    \/ \E result \in FirstPageResults : ChunkFirstPageFatal(result)
    \/ \E result \in NextPageResults : ChunkNextPage_Ok(result)
    \/ \E result \in NextPageResults : ChunkNextPage_Skipped(result)
    \/ ChunkSave

SpecChunked == ChunkInit /\ [][ChunkNext]_vars

(***************************************************************************)
(* Properties                                                              *)
(***************************************************************************)
TransactionId(k) == PyInt(FALSE, NatToText(k))

\* the records the visited pages contributed, in page order
KeptOf(log) == Flatten([i \in 1..Len(log) |-> log[i].kept])

SchemaFieldSet == SeqToSet(FieldNames(column_structure.column_order))

\* the columns of the schema whose data_type is debit, credit or balance
MonetaryColumns ==
    {i \in 1..Len(column_structure.column_order) :
        column_structure.column_order[i].data_type \in MonetaryTypes}

SkippedStatuses == {"blank", "raised", "not_list"}

\* C1: the schema extract_headers_only returns after the de-duplication and
\* the backfill pass has no two descriptors with the same standardized_field.
C1_SchemaUniqueness ==
    (spc = "validated" /\ ~sOut.raised) => NoDuplicates(FieldNames(sOut.cols))

\* C2: when the run writes N records their transaction_id values are 1..N,
\* the k-th record carrying k, whichever pages contributed or were skipped;
\* until the pages are consolidated the records are exactly the pages'
\* contributions, without an identifier assigned by the pipeline.
C2_IdentifierContiguity ==
    /\ pc # "done" => all_transactions = KeptOf(page_log)
    /\ written =>
           /\ Len(output.rows) = Len(KeptOf(page_log))
           /\ Len(all_transactions) = Len(output.rows)
           /\ \A k \in 1..Len(output.rows) :
                  /\ GetOrNull(output.rows[k], F_transaction_id) = TransactionId(k)
                  /\ GetOrNull(all_transactions[k], F_transaction_id) = TransactionId(k)

C2_Witness ==
    /\ written
    /\ Len(output.rows) >= 3
    /\ \E i \in 1..Len(page_log) : page_log[i].status \in SkippedStatuses
    /\ \E i \in 1..Len(page_log) :
           \E j \in 1..Len(page_log[i].kept) : HasKey(page_log[i].kept[j], F_transaction_id)

\* C3: every record of the consolidated output has exactly the schema's
\* standardized_field names plus transaction_id as its keys.
C3_FieldCompleteness ==
    written =>
        \A k \in 1..Len(output.rows) :
            SeqToSet(Keys(output.rows[k])) = SchemaFieldSet \cup {F_transaction_id}

\* C4: every debit-, credit- or balance-typed field present in a consolidated
\* record is null or a non-negative number.
C4_MonetarySign ==
    \A k \in 1..Len(all_transactions) : \A i \in MonetaryColumns :
        LET field == column_structure.column_order[i].standardized_field.s
        IN  HasKey(all_transactions[k], field)
                => NullOrNonNegative(Get(all_transactions[k], field))

\* C5: normalizing a normalized monetary value again returns the same value.
C5_MoneyIdempotent ==
    mpc = "recleaned" => mOut2 = mOut

\* C6: "1,142,432.00Cr" normalizes to 1142432.00 and "-500.00 Dr" (with or
\* without the space) to 500.00.
C6_MagnitudePreserved ==
    mpc = "cleaned" =>
        /\ mIn = Str(Raw1142432Cr)
               => mOut = PyFloat(FALSE, <<"1","1","4","2","4","3","2">>, <<>>)
        /\ mIn \in {Str(RawMinus500Dr), Str(RawMinus500DrTight)}
               => mOut = PyFloat(FALSE, <<"5","0","0">>, <<>>)

ExpectedSalaryRow ==
    << Item(F_transaction_id, TransactionId(1)),
       Item(F_date, Str(T_20240101)),
       Item(F_description, Str(T_SalaryCredit)),
       Item(F_debit, Null),
       Item(F_credit, PyFloat(FALSE, <<"5","0","0","0","0">>, <<>>)),
       Item(F_running_balance, PyFloat(FALSE, <<"7","5","0","0","0">>, <<>>)) >>

\* C7: with the schema date, description, debit, credit, running_balance and
\* one page whose result is the salary record, the output is exactly
\* transaction_id 1, date 2024-01-01, SALARY CREDIT, debit null,
\* credit 50000.00, running_balance 75000.00.
C7_SalaryScenario ==
    ( /\ written
      /\ Len(pages) = 1
      /\ column_structure.column_order = StandardColumns
      /\ page_log[1].returned = <<DictEntry(SalaryRecord)>> )
        => output.rows = <<ExpectedSalaryRow>>

\* row k of the output is the k-th contributed record under identifier k
RowIsRecord(row, tx, k) ==
    /\ SeqToSet(Keys(tx)) \subseteq SeqToSet(Keys(row))
    /\ \A j \in 1..Len(row) :
           row[j].v = IF row[j].k = F_transaction_id THEN TransactionId(k)
                      ELSE GetOrNull(tx, row[j].k)

ReportsTable(entry) ==
    entry.status \notin {"blank", "raised"} /\ HeaderAccepted(entry.result)

\* ... and its post-validation does not raise
ReportsValidTable(entry) ==
    ReportsTable(entry) /\ ~PostValidate(entry.result.column_order).raised

\* the pages of the scan window the header chain may have been invoked for
\* when page h is being examined
InvocablePages(h) == {i \in 1..Min(h, pages_to_scan) : pages[i] = "text"}

\* C9 as stated: discovery returns the schema of the lowest-index page whose
\* result has table_found = true and a non-empty descriptor list.
C9_FirstReportedTableWins ==
    pc = "schema_check" =>
        \A i \in 1..Len(scan_log) :
            ReportsTable(scan_log[i]) =>
                /\ column_structure.found
                /\ i = Len(scan_log)
                /\ scan_log[i].status = "accepted"

\* C9 as amended: discovery examines the pages in order, at most
\* min(scan_limit, page count) of them, and returns the post-validated schema
\* of the lowest-index page whose result has table_found = true, a non-empty
\* descriptor list and a post-validation that does not raise; the oracle is
\* not invoked for a later page; a blank page, a page whose attempts raise, a
\* rejected page and a page whose post-validation raises are passed over.
C9_FirstValidTableWins ==
    /\ Len(scan_log) <= pages_to_scan
    /\ pc \in {"scan", "header_call"} =>
           /\ Len(scan_log) = hp - 1
           /\ hp <= pages_to_scan + 1
           /\ ~column_structure.found
           /\ \A i \in 1..Len(scan_log) : ~ReportsValidTable(scan_log[i])
    /\ pc \in {"scan", "header_call", "schema_check"} =>
           header_invoked \subseteq InvocablePages(hp)
    /\ (pc = "schema_check" /\ column_structure.found) =>
           /\ Len(scan_log) = hp
           /\ ReportsValidTable(scan_log[hp])
           /\ \A i \in 1..(hp - 1) : ~ReportsValidTable(scan_log[i])
           /\ column_structure.column_order =
                  PostValidate(scan_log[hp].result.column_order).cols
           /\ header_invoked \subseteq 1..hp
    /\ (pc = "schema_check" /\ ~column_structure.found) =>
           /\ Len(scan_log) = pages_to_scan
           /\ \A i \in 1..Len(scan_log) : ~ReportsValidTable(scan_log[i])

C9_Witness ==
    /\ pc = "schema_check"
    /\ column_structure.found
    /\ hp = 3
    /\ Len(pages) > max_pages_to_scan
    /\ scan_log[1].status = "invalid"
    /\ scan_log[2].status \in {"rejected", "raised", "blank"}

\* C10: when discovery returns no schema the run ends: the extraction oracle
\* is not invoked for any page, no page is visited and nothing is written.
C10_DiscoveryFailureIsFatal ==
    /\ pc \in {"page", "tx_call"} => column_structure.found
    /\ ~column_structure.found =>
           /\ tx_invoked = {}
           /\ page_log = <<>>
           /\ all_transactions = <<>>
           /\ ~written
           /\ output = NoOutput

C10_Witness ==
    /\ pc = "done"
    /\ ~column_structure.found
    /\ Len(pages) >= 2
    /\ \E i \in 1..pages_to_scan : pages[i] = "text"

\* the last entry of a log
Last(log) == log[Len(log)]

\* a step taken while parse_with_retry is running: one chain.invoke call
Invokes == pc \in {"header_call", "tx_call"}

\* a step that ends a parse_with_retry call of discovery, and one that ends a
\* call of the page loop
HeaderCallEnds == pc = "header_call" /\ pc' # "header_call"

TxCallEnds == pc = "tx_call" /\ pc' # "tx_call"

\* C11: for one page parse_with_retry invokes the chain at most
\* max_retries + 1 times with the same input; it returns at the first attempt
\* that does not raise, without a further invocation; it raises only when
\* every attempt has failed; the loop that called it catches the exception,
\* the page contributes nothing and the next page is taken up.
C11_BoundedRetry ==
    /\ [](/\ invocations = attempt
          /\ Invokes => invocations + 1 <= max_retries + 1
          /\ ~Invokes => invocations = 0)
    /\ [][ /\ (pc = "header_call" /\ pc' = "header_call") =>
                  /\ invocations' = invocations + 1
                  /\ hp' = hp
                  /\ pages' = pages
                  /\ scan_log' = scan_log
           /\ (pc = "tx_call" /\ pc' = "tx_call") =>
                  /\ invocations' = invocations + 1
                  /\ page_num' = page_num
                  /\ pages' = pages
                  /\ prompt_context' = prompt_context
                  /\ page_log' = page_log
           /\ HeaderCallEnds =>
                  /\ Len(scan_log') = Len(scan_log) + 1
                  /\ IF Last(scan_log').status = "raised"
                     THEN /\ invocations + 1 = max_retries + 1
                          /\ pc' = "scan"
                          /\ hp' = hp + 1
                          /\ column_structure' = column_structure
                     ELSE pc' = "schema_check" \/ (pc' = "scan" /\ hp' = hp + 1)
           /\ TxCallEnds =>
                  /\ Len(page_log') = Len(page_log) + 1
                  /\ pc' = "page"
                  /\ page_num' = page_num + 1
                  /\ Last(page_log').status = "raised" =>
                         /\ invocations + 1 = max_retries + 1
                         /\ all_transactions' = all_transactions
                         /\ last_successful_transaction' = last_successful_transaction
           /\ (pc = "scan" /\ pc' = "header_call") => hp' = hp
           /\ (pc = "page" /\ pc' = "tx_call") => page_num' = page_num
           /\ page_num' >= page_num ]_vars

C11_Witness ==
    /\ pc = "tx_call"
    /\ page_num = 3
    /\ invocations = max_retries
    /\ page_log[1].status = "list"
    /\ page_log[1].kept # <<>>
    /\ page_log[2].status = "raised"
    /\ all_transactions = page_log[1].kept

\* C12: the sorted page files are in ascending page number, so the pages are
\* taken up in document order: the k-th page sent to the oracle is page k.
C12_DocumentOrder ==
    /\ opc \in {"walk", "done"} =>
           page_files = [n \in 1..page_count |-> PageName(n)]
    /\ \A k \in 1..Len(sent) : sent[k] = k

\* the entries of a returned list that are non-empty records
KeptEntries(entries) == SelectSeq(entries, LAMBDA e : e.kind = "dict" /\ e.items # <<>>)

\* the transaction list a processed page returned: the 'transactions' list of
\* the first page's dict, the list itself for a later page
ReturnedList(i) ==
    LET result == chunk_log[i].result
    IN  IF i = 1
        THEN (IF result.shape = "dict" /\ result.tx_shape = "list" THEN result.entries ELSE <<>>)
        ELSE (IF result.shape = "list" THEN result.entries ELSE <<>>)

\* C13: the final record sequence is the concatenation, in page order, of
\* each successfully processed page's returned list without its null, empty
\* and non-record entries, the rows of a page in their order and every kept
\* record once.
C13_ConsolidationOrder ==
    chunk_written =>
        final_json_data.transactions =
            Flatten([i \in 1..Len(chunk_log) |->
                        IF chunk_log[i].status = "ok" THEN KeptEntries(ReturnedList(i))
                        ELSE <<>>])

\* C16: a first-page response that is not a dict holding a transaction list
\* and a later-page response that is not a list are page-level failures: the
\* page contributes nothing, every remaining page is still processed and the
\* output is still written.
C16_ShapeFailureNotFatal ==
    (cpc \in {"done", "exit"} /\ chunk_page_files # <<>>) =>
        /\ Len(chunk_log) = Len(chunk_page_files)
        /\ chunk_written

\* the field is a key of at least one consolidated record
PresentInSomeRecord(field) ==
    \E k \in 1..Len(all_transactions) : HasKey(all_transactions[k], field)

\* the header the projection rule gives: the fixed prefix restricted to the
\* fields present in a record, then the other schema fields present in a
\* record, in schema position order
ProjectedColumns ==
    LET prefix == SelectSeq(standard_columns, PresentInSomeRecord)
        others == SelectSeq(FieldNames(column_structure.column_order),
                            LAMBDA f : PresentInSomeRecord(f) /\ f \notin SeqToSet(prefix))
    IN  prefix \o others

\* C14: the output header is the fixed prefix restricted to the fields
\* present in at least one record, followed by the remaining schema fields in
\* schema position order, whatever the key order of the oracle's records, and
\* no column outside the schema other than transaction_id is emitted.
C14_ColumnProjection ==
    written =>
        /\ output.columns = ProjectedColumns
        /\ SeqToSet(output.columns) \subseteq SchemaFieldSet \cup {F_transaction_id}

\* a value pandas cannot read as a date
Unparseable(v) == v.t = "str" /\ ~(\E d \in ParsedDates : d[1] = v.s)

\* C15: a date-typed field whose raw value cannot be parsed as a date is null
\* in the consolidated record; the record is kept and its other fields are
\* as the normalization of the other fields leaves them.
C15_UnparsedDateIsNull ==
    \A i \in 1..Len(page_log) :
        LET raw == ValidTransactions(page_log[i].returned)
            kept == page_log[i].kept
        IN  /\ Len(kept) = Len(raw)
            /\ \A j \in 1..Len(raw) :
                   \A f \in SeqToSet(DateFields(column_structure.column_order)) :
                       (HasKey(raw[j], f) /\ Unparseable(Get(raw[j], f)))
                           => (HasKey(kept[j], f) /\ IsNull(Get(kept[j], f)))

\* C17: once extract_headers_only has returned, no step changes the column
\* structure, and the records of every page are the normalization of what
\* the oracle returned for it against that one schema.
C17_SchemaImmutable ==
    /\ [][pc \notin {"scan", "header_call"} => column_structure' = column_structure]_vars
    /\ [][Len(page_log') = Len(page_log) + 1 =>
              Last(page_log').kept =
                  PageTransactions(Last(page_log').returned, column_structure'.column_order)]_vars

C17_Witness ==
    /\ pc = "done"
    /\ written
    /\ column_structure.column_order = PostValidate(IrregularColumns).cols
    /\ Len(page_log) = 3
    /\ page_log[1].kept # <<>>
    /\ page_log[3].kept # <<>>
    /\ page_log[1].returned # page_log[3].returned

\* the last element of a list, None (the empty record) for an empty list
LastOf(q) == IF q = <<>> THEN <<>> ELSE q[Len(q)]

\* a step that builds the prompt of the page at hand
BuildsPrompt == pc = "page" /\ page_num <= Len(pages)

\* the prior transaction handed to the prompt of page k is the last kept
\* record of the nearest earlier page that contributed one, None while no
\* page has contributed, and a page that contributes nothing leaves it as it is
ContextFollowsPages ==
    /\ [](pc \in {"page", "tx_call"} =>
              last_successful_transaction = LastOf(KeptOf(page_log)))
    /\ [](pc = "tx_call" =>
              /\ Len(page_log) = page_num - 1
              /\ prompt_context = SafeLastTx(LastOf(KeptOf(page_log))))
    /\ [][BuildsPrompt => prompt_context' = SafeLastTx(LastOf(KeptOf(page_log)))]_vars
    /\ [][(Len(page_log') = Len(page_log) + 1 /\ Last(page_log').kept = <<>>)
              => last_successful_transaction' = last_successful_transaction]_vars

\* C18 as stated: the context is the last kept record of the nearest earlier
\* contributing page, null before any page contributed, unchanged by a page
\* that contributes nothing, and it never contains a transaction_id.
C18_ContextWithoutIdentifier ==
    /\ ContextFollowsPages
    /\ [](~HasKey(prompt_context, F_transaction_id))

\* the oracle's record that ends the valid records of page i carries this
\* transaction_id
OracleGaveIdentifier(i, v) ==
    LET raw == ValidTransactions(page_log[i].returned)
    IN  /\ raw # <<>>
        /\ HasKey(LastOf(raw), F_transaction_id)
        /\ Get(LastOf(raw), F_transaction_id) = v

\* C18 as amended: as stated, except that the context never contains a
\* transaction_id assigned by the pipeline; it contains one exactly as the
\* oracle's own record carried it.
C18_ContinuityContext ==
    /\ ContextFollowsPages
    /\ [](HasKey(prompt_context, F_transaction_id) =>
              \E i \in 1..Len(page_log) :
                  OracleGaveIdentifier(i, Get(prompt_context, F_transaction_id)))

C18_Witness ==
    /\ pc = "tx_call"
    /\ page_num = 4
    /\ page_log[1].kept # <<>>
    /\ page_log[2].kept # <<>>
    /\ page_log[2].kept # page_log[1].kept
    /\ page_log[3].status \in SkippedStatuses
    /\ prompt_context # <<>>
    /\ prompt_context = SafeLastTx(LastOf(page_log[2].kept))
    /\ HasKey(prompt_context, F_transaction_id)

\* the columns of the schema whose data_type is debit or credit
PositiveColumns ==
    {i \in 1..Len(column_structure.column_order) :
        column_structure.column_order[i].data_type \in {"debit", "credit"}}

\* C19: every debit- or credit-typed field of a consolidated record is
\* clean_monetary_value applied once to the value the oracle returned: the
\* second pass over the positive fields changes nothing.
C19_SingleNormalization ==
    \A i \in 1..Len(page_log) :
        LET raw == ValidTransactions(page_log[i].returned)
            kept == page_log[i].kept
        IN  /\ Len(kept) = Len(raw)
            /\ \A j \in 1..Len(raw) : \A c \in PositiveColumns :
                   LET field == column_structure.column_order[c].standardized_field.s
                   IN  HasKey(raw[j], field) =>
                           /\ HasKey(kept[j], field)
                           /\ Get(kept[j], field) = clean_monetary_value(Get(raw[j], field))

====
